---- MODULE Spec2Model ----
(***************************************************************************)
(* NoiseLake: clocked noise source, gate hold and wavefolders of the       *)
(* Hemisphere applet, in its three source variants:                        *)
(*   "first"  src/unnamed/part_000 lines 1..265   (32-bit clock, unsigned  *)
(*            noise, refresh on every tick)                                *)
(*   "dual"   src/software/o_c_REV/HEM_NoiseLake.ino (two filter channels) *)
(*   "fold"   src/unnamed/part_000 lines 267..700 (one filter, wavefolder) *)
(* The build target is a 32-bit ARM: int is 32 bits, int16_t conversions   *)
(* wrap modulo 2^16, unsigned arithmetic wraps modulo its width.           *)
(***************************************************************************)
EXTENDS Integers, Sequences, FiniteSets, TLC

VARIABLES
    variant,          \* which source variant this instance is built from
    started,          \* Start() has run
    cursor,           \* int cursor
    noise_mode,       \* uint8_t noise_mode
    state_clock,      \* uint8_t state_clock
    state_filter,     \* FilterState state_filter[2] (one record in "fold")
    state_wavefolder, \* int16_t state_wavefolder ("fold" only)
    clk_phi,          \* phase accumulator
    clk_dphi,         \* phase increment
    noise,            \* int16_t noise
    held,             \* int16_t _noise[2] (a member only in "dual")
    \* observations of the last handler run
    op,               \* name of the last handler
    gate,             \* Gate(ch) as read (or present) on the last tick
    fed,              \* sample passed to the filter feed per channel
    prevfed,          \* fed of the tick before
    pre,              \* noise before the last tick
    wrapped,          \* the last tick wrapped the phase
    refreshed,        \* the last tick ran a noise refresh branch
    rate,             \* argument of the last rate-setter call
    phi0,             \* phase when the increment was last set
    nclk,             \* clocked ticks since the increment was last set
    wraps,            \* wraps since the increment was last set
    nowrap,           \* clocked ticks in a row without a wrap at this increment
    eta,              \* eta drawn on the last tick (-1: none drawn)
    quiet,            \* Crackle ticks in a row on which no event fired
    feeds,            \* filter feed calls per channel on the last tick
    out,              \* Out(ch, ...) of the last tick: <<value>>, or <<>>
                      \* where a filter tap of tiny_dsp.h was emitted
    ticks,            \* Controller runs so far
    ui,               \* button/encoder events so far
    \* pure-function harness
    fcall,            \* which function was applied ("none" before)
    farg,             \* its arguments
    fres              \* its results

vars == <<variant, started, cursor, noise_mode, state_clock, state_filter,
          state_wavefolder, clk_phi, clk_dphi, noise, held, op, gate, fed,
          prevfed, pre, wrapped, refreshed, rate, phi0, nclk, wraps, nowrap,
          eta, quiet, feeds, out, ticks, ui, fcall, farg, fres>>

progvars == <<variant, started, cursor, noise_mode, state_clock, state_filter,
              state_wavefolder, clk_phi, clk_dphi, noise, held, op, gate, fed,
              prevfed, pre, wrapped, refreshed, rate, phi0, nclk, wraps,
              nowrap, eta, quiet, feeds, out, ticks, ui>>

funvars == <<fcall, farg, fres>>

----------------------------------------------------------------------------
\* Bounds of the exploration
MaxTicks == 2
MaxUI == 2
MaxPhaseTicks == 65540
MaxClockTicks == 62
MaxClockUI == 1
MaxFlipTicks == 2
MaxLimit == 6
MaxShift == 2
MaxOffset == 30
MaxChainUI == 2
MaxParamUI == 3
MaxCrackleTicks == 36
MaxSwitchUI == 3
MaxSwitchTicks == 3
MaxChainTicks == 1

----------------------------------------------------------------------------
\* Program constants
BNC_MAX_PARAM == 63
NL_MAX_PARAM == 111
NOISE_MODE_WHITE == 0
NOISE_MODE_BITFLIP == 1
NOISE_MODE_CRACKLE == 2
NOISE_MODE_LINEIN == 3
FILTER_MODE_OFF == 0
FILTER_MODE_LP == 1
FILTER_MODE_BP == 2
FILTER_MODE_HP == 3
FILTER_MODE_NOTCH == 4
FSAMPLE_CHZ == 1666667
CLK_PHI_MAX == 65535
CFREQ_SCALE_IDX_C7 == 75
FOLDCURVE_N == 64
HEMISPHERE_MAX_CV == 7680

NOISE_VALUE_MAX(v) == IF v = "first" THEN 4095 ELSE 2047

MaxParam(v) == IF v = "fold" THEN NL_MAX_PARAM ELSE BNC_MAX_PARAM

FREQ_SCALE ==
    <<   50,    55,    60,    66,    72,    79,    87,    95,   105,
        115,   126,   138,   151,   166,   182,   199,   219,   240,
        263,   288,   316,   347,   380,   417,   457,   501,   550,
        603,   661,   725,   795,   872,   956,  1048,  1150,  1261,
       1382,  1516,  1662,  1823,  1999,  2192,  2404,  2636,  2891,
       3170,  3476,  3812,  4180,  4584,  5026,  5512,  6044,  6628,
       7269,  7971,  8741,  9585, 10511, 11526, 12639, 13860, 15199,
      16667 >>

CFREQ_SCALE ==
    <<     2750,    2914,    3087,    3270,    3465,    3671,    3889,
           4120,    4365,    4625,    4900,    5191,    5500,    5827,
           6174,    6541,    6930,    7342,    7778,    8241,    8731,
           9250,    9800,   10383,   11000,   11654,   12347,   13081,
          13859,   14683,   15556,   16481,   17461,   18500,   19600,
          20765,   22000,   23308,   24694,   26163,   27718,   29366,
          31113,   32963,   34923,   36999,   39200,   41530,   44000,
          46616,   49388,   52325,   55437,   58733,   62225,   65926,
          69846,   73999,   78399,   83061,   88000,   93233,   98777,
         104650,  110873,  117466,  124451,  131851,  139691,  147998,
         156798,  166122,  176000,  186466,  197553,  209300,  221746,
         234932,  248902,  263702,  279383,  295996,  313596,  332244,
         352000,  372931,  395107,  418601,  443492,  469864,  497803,
         527404,  558765,  591991,  627193,  664488,  704000,  745862,
         790213,  837202,  886984,  939727,  995606, 1054808, 1117530,
        1183982, 1254385, 1328975, 1408000, 1491724, 1580427, 1666667 >>

NOISE_MODE_NAMES(v) ==
    IF v = "fold" THEN <<"  white", "bitflip", "crackle", "line in">>
    ELSE IF v = "dual" THEN <<"  white", "bitflip", "crackle">>
    ELSE <<"  white", "bitflip", " motion">>

FILTER_MODE_NAMES(v) ==
    IF v = "first" THEN <<"off", "lp", "bp", "hp", "ntc">>
    ELSE <<"off", " lp", " bp", " hp", "ntc">>

FOLDCURVE ==
    <<    0,   406,   796,  1154,  1466,  1720,  1906,  2017,  2047,
       1997,  1867,  1663,  1393,  1068,   700,   305,  -102,  -505,
       -889, -1237, -1536, -1774, -1941, -2032, -2042, -1971, -1822,
      -1601, -1316,  -979,  -604,  -204,   204,   604,   979,  1316,
       1601,  1822,  1971,  2042,  2032,  1941,  1774,  1536,  1237,
        889,   505,   102,  -305,  -610,  -802,  -892,  -894,  -830,
       -719,  -582,  -439,  -305,  -191,  -104,   -46,   -14,     0,
          0 >>

----------------------------------------------------------------------------
\* Machine arithmetic

\* conversion to int16_t (two's complement wrap)
Int16(v) == ((v + 32768) % 65536) - 32768

\* conversion to uint8_t
UInt8(v) == v % 256

\* C integer division and remainder (truncation toward zero), b > 0
CDiv(a, b) == IF a >= 0 THEN a \div b ELSE -((-a) \div b)

CRem(a, b) == a - b * CDiv(a, b)

\* constrain without the upper limit
constrainLow(x, lo, hi) == IF x < lo THEN lo ELSE x

\* constrain(x, lo, hi) of the Arduino core
constrain(x, lo, hi) == IF x < lo THEN lo ELSE IF x > hi THEN hi ELSE x

\* v ^ (1 << r) on a two's complement int
XorBit(v, r) == IF (v \div (2^r)) % 2 = 1 THEN v - 2^r ELSE v + 2^r

----------------------------------------------------------------------------
\* Rate setter.  The product cfreq*CLK_PHI_MAX (about 1.1e11) is carried as
\* (product \div 256, product % 256) so that every intermediate value of the
\* evaluation is below 2^31; the value computed is the one the C expression
\* computes in the stated width.

\* (a*b) \div 256
ProductHigh(a, b) == a * (b \div 256) + (a * (b % 256)) \div 256

\* (a*b) % 256
ProductLow(a, b) == (a * (b % 256)) % 256

\* (hi*256 + lo) / d, unsigned
WideDiv(hi, lo, d) == (hi \div d) * 256 + ((hi % d) * 256 + lo) \div d

\* "first": void CLKSetFreq(uint32_t cfreq): the product is a uint32_t and
\* keeps its low 32 bits only (the low 24 bits of product \div 256)
CLKSetFreq(cfreq) ==
    WideDiv(ProductHigh(cfreq, CLK_PHI_MAX) % (2^24),
            ProductLow(cfreq, CLK_PHI_MAX), FSAMPLE_CHZ)

\* CLKSetCFreq dividing by the sample rate before multiplying
CLKSetCFreqDivFirst(cfreq) == (cfreq \div FSAMPLE_CHZ) * CLK_PHI_MAX

\* "dual", "fold": void CLKSetCFreq(uint64_t cfreq): 64-bit product
CLKSetCFreq(cfreq) ==
    WideDiv(ProductHigh(cfreq, CLK_PHI_MAX),
            ProductLow(cfreq, CLK_PHI_MAX), FSAMPLE_CHZ)

\* the setter a variant calls
SetRate(v, cfreq) == IF v = "first" THEN CLKSetFreq(cfreq) ELSE CLKSetCFreq(cfreq)

\* the clock-rate table of a variant
ClkTable(v) == IF v = "fold" THEN CFREQ_SCALE ELSE FREQ_SCALE

\* the index of Parameter2Clk wrapping around the table instead of clamping
Parameter2ClkIndexWrap(v, p) == p % Len(ClkTable(v))

\* p = p < 112 ? p : 111 ("fold"), p = p < 64 ? p : 63 ("dual")
Parameter2ClkIndex(v, p) ==
    IF v = "fold"
    THEN (IF p < 112 THEN p ELSE 111)
    ELSE (IF p < 64 THEN p ELSE 63)

\* Parameter2Clk(uint8_t p): table lookup at the clamped index
Parameter2Clk(v, p) == ClkTable(v)[Parameter2ClkIndex(v, p) + 1]

\* p = p > CFREQ_SCALE_IDX_C7 ? CFREQ_SCALE_IDX_C7 : p
Parameter2FrequencyIndex(p) ==
    IF p > CFREQ_SCALE_IDX_C7 THEN CFREQ_SCALE_IDX_C7 ELSE p

\* "fold": uint32_t Parameter2Frequency(uint8_t p), table lookup
Parameter2Frequency(p) == CFREQ_SCALE[Parameter2FrequencyIndex(p) + 1]

\* the argument OnEncoderMove passes to the setter for clock parameter p
ClockRate(v, p) == IF v = "fold" THEN Parameter2Clk(v, p) ELSE Parameter2Clk(v, p) * 100

\* Proportion(numerator, denominator, max_value) of the applet base class
Proportion(numerator, denominator, max_value) ==
    CDiv(numerator * max_value, denominator)

----------------------------------------------------------------------------
\* ClockAdvance with the phase reset to zero on a wrap
ClockAdvanceReset(phi, dphi) ==
    IF phi + dphi >= CLK_PHI_MAX
    THEN [phi |-> 0, wrapped |-> TRUE]
    ELSE [phi |-> phi + dphi, wrapped |-> FALSE]

\* Phase clock.  clk_phi and the sum stay far below 2^31 under the bounds of
\* the exploration, so the unsigned wrap of the accumulator never acts.
ClockAdvance(phi, dphi) ==
    IF phi + dphi >= CLK_PHI_MAX
    THEN [phi |-> phi + dphi - CLK_PHI_MAX, wrapped |-> TRUE]
    ELSE [phi |-> phi + dphi, wrapped |-> FALSE]

----------------------------------------------------------------------------
\* Inputs: results of random(), In(0), Gate(ch)

\* random(0, 12): all results, and a selection of them (the two lowest bits
\* and the top bit) for the larger explorations
AllBits == 0..11

BitDraws == {0, 1, 11}

\* the generator returning its smallest result
LowBit == {0}

\* random(0, NOISE_VALUE_MAX) in Start: 0 .. NOISE_VALUE_MAX-1
StartDraws(v) == {0, 1, NOISE_VALUE_MAX(v) - 1}

\* the fresh sample of the white branch: random(0, NOISE_VALUE_MAX) in
\* "first", random(-NOISE_VALUE_MAX, NOISE_VALUE_MAX) in the others
WhiteDraws(v) ==
    IF v = "first" THEN {0, NOISE_VALUE_MAX(v) - 1}
    ELSE {-NOISE_VALUE_MAX(v), 0, NOISE_VALUE_MAX(v) - 1}

\* uint16_t eta = random(0, CLK_PHI_MAX): 0 .. CLK_PHI_MAX-1
EtaDraws == {0, 1, 2, 20000, CLK_PHI_MAX - 1}

\* random(2)
SignDraws == {0, 1}

\* In(0)
CvDraws == {-(HEMISPHERE_MAX_CV \div 2), 0, HEMISPHERE_MAX_CV}

\* Gate(0), Gate(1)
GateDraws == [1..2 -> BOOLEAN]

\* encoder direction
Directions == {-1, 1}

\* encoder direction, single steps and steps beyond the range of a uint8_t
WideDirections == {-300, -1, 1, 300}

\* contents of the uninitialised local int16_t _noise[ch] of "first" when
\* the gate is high: the stale value of the slot or any other int16_t
StackJunk(stale) == {stale, 21845}

----------------------------------------------------------------------------
\* Noise source

\* the value the XOR of BitFlip operates on: noise itself in "first", noise
\* after noise += NOISE_VALUE_MAX in "dual" and "fold"
BitFlipOperand(v, nz) ==
    IF v = "first" THEN nz ELSE Int16(nz + NOISE_VALUE_MAX(v))

\* what BitFlip subtracts after the XOR: noise -= NOISE_VALUE_MAX in "dual"
\* and "fold", nothing in "first"
BitFlipUnbias(v) == IF v = "first" THEN 0 ELSE NOISE_VALUE_MAX(v)

\* BitFlip with the XOR applied to the signed sample, without the bias
BitFlipUnbiased(v, nz, r) == Int16(XorBit(nz, r))

\* BitFlip refresh: noise ^= (1 << r), around the bias in "dual" and "fold"
BitFlip(v, nz, r) ==
    Int16(Int16(XorBit(BitFlipOperand(v, nz), r)) - BitFlipUnbias(v))

\* int16_t a = clk_dphi / eta.  eta = 0 divides by zero; the 64-bit
\* division helper then yields 0 or all ones, i.e. 0 or -1 as int16_t
CrackleAmplitudes(dphi, e) ==
    IF e = 0 THEN {0, -1} ELSE {Int16(dphi \div e)}

\* burst: a = a > 8 ? 8 : a; a *= random(2) > 0 ? 1 : -1; a*NOISE_VALUE_MAX/8
CrackleBurst(v, a, sgn) ==
    LET a1 == IF a > 8 THEN 8 ELSE a
        a2 == Int16(a1 * (IF sgn > 0 THEN 1 ELSE -1))
    IN  Int16(CDiv(a2 * NOISE_VALUE_MAX(v), 8))

\* decay with the division rounding toward minus infinity (a shift)
CrackleDecayFloor(nz) == Int16((nz * 3) \div 4)

\* decay: noise = (noise*3)/4
CrackleDecay(nz) == Int16(CDiv(nz * 3, 4))

\* the Crackle branch: the threshold drawn and the sample stored
CrackleOutcomes(v, dphi, nz) ==
    UNION { IF e < dphi
            THEN {[noise |-> CrackleBurst(v, a, sgn), eta |-> e] :
                      a \in CrackleAmplitudes(dphi, e), sgn \in SignDraws}
            ELSE {[noise |-> CrackleDecay(nz), eta |-> e]} : e \in EtaDraws }

\* the samples a refresh of the clocked modes can store
RefreshSamples(v, mode, nz, bits) ==
    IF mode = NOISE_MODE_BITFLIP
    THEN {BitFlip(v, nz, r) : r \in bits}
    ELSE IF v = "fold" /\ mode = NOISE_MODE_LINEIN
    THEN {Int16(Proportion(cv, HEMISPHERE_MAX_CV, NOISE_VALUE_MAX(v))) : cv \in CvDraws}
    ELSE WhiteDraws(v)

\* noise and clock part of Controller(): every outcome of one tick
NoiseOutcomes(v, mode, phi, dphi, nz, bits) ==
    IF v = "first"
    THEN LET c == ClockAdvance(phi, dphi)
         IN  {[noise |-> s, phi |-> c.phi, wrapped |-> c.wrapped,
               refreshed |-> TRUE, clocked |-> TRUE, eta |-> -1] :
                  s \in RefreshSamples(v, mode, nz, bits)}
    ELSE IF mode = NOISE_MODE_CRACKLE
    THEN {[noise |-> c.noise, phi |-> phi, wrapped |-> FALSE,
           refreshed |-> TRUE, clocked |-> FALSE, eta |-> c.eta] :
              c \in CrackleOutcomes(v, dphi, nz)}
    ELSE LET c == ClockAdvance(phi, dphi)
         IN  IF c.wrapped
             THEN {[noise |-> s, phi |-> c.phi, wrapped |-> TRUE,
                    refreshed |-> TRUE, clocked |-> TRUE, eta |-> -1] :
                       s \in RefreshSamples(v, mode, nz, bits)}
             ELSE {[noise |-> nz, phi |-> c.phi, wrapped |-> FALSE,
                    refreshed |-> FALSE, clocked |-> TRUE, eta |-> -1]}

\* if (!Gate(ch)) _noise[ch] = noise;
HoldSample(g, old, cur) == IF ~g THEN cur ELSE old

\* FilterStep with the feed skipped when the filter is off
FilterStepSkipOff(m, sample) ==
    IF m = FILTER_MODE_OFF
    THEN [feeds |-> 0, fed |-> sample, signal |-> <<sample>>]
    ELSE [feeds |-> 1, fed |-> sample, signal |-> <<>>]

\* filter.feed(sample, freq, q) and the tap switch of one channel in filter
\* mode m: the feed calls made, the sample fed and signal[ch].  The taps
\* get_lp() .. get_no() are computed by tiny_dsp.h; their value is left open.
FilterStep(m, sample) ==
    [feeds |-> 1, fed |-> sample,
     signal |-> IF m = FILTER_MODE_OFF THEN <<sample>> ELSE <<>>]

----------------------------------------------------------------------------
\* Wavefolders (pure functions)

\* WaveFolder without the sign removal of the remainder
WaveFolderNoAbs(signal, limit) ==
    LET s    == Int16(signal + limit)
        out0 == Int16(CRem(s, 2 * limit))
        out2 == IF CRem(CDiv(s, 2 * limit), 2) = 0
                THEN Int16(2 * limit - out0) ELSE out0
    IN  Int16(out2 - limit)

\* int16_t WaveFolder(int16_t signal, int16_t limit)
WaveFolder(signal, limit) ==
    LET s    == Int16(signal + limit)
        out0 == Int16(CRem(s, 2 * limit))
        out1 == IF out0 < 0 THEN Int16(-out0) ELSE out0
        out2 == IF CRem(CDiv(s, 2 * limit), 2) = 0
                THEN Int16(2 * limit - out1) ELSE out1
    IN  Int16(out2 - limit)

\* const int16_t dx = 4*(NOISE_VALUE_MAX+1)/FOLDCURVE_N
FoldDx == CDiv(4 * (NOISE_VALUE_MAX("fold") + 1), FOLDCURVE_N)

\* FoldClamp one bucket too low
FoldClampLow(i) == IF i < FOLDCURVE_N - 2 THEN i ELSE FOLDCURVE_N - 3

\* i = i < FOLDCURVE_N - 1 ? i : FOLDCURVE_N - 2
FoldClamp(i) == IF i < FOLDCURVE_N - 1 THEN i ELSE FOLDCURVE_N - 2

\* uint8_t i: the bucket InterpolationFolder reads for input x
FoldBucket(x) ==
    IF x >= 0 THEN FoldClamp(UInt8(CDiv(x, FoldDx)))
    ELSE FoldClamp(UInt8(CDiv(-1 * x, FoldDx)))

\* InterpolationFolder with the final division done as an arithmetic shift
\* (rounding toward minus infinity instead of toward zero)
InterpolationFolderShift(x) ==
    LET dx == FoldDx
        i  == FoldBucket(x)
        y  == IF x >= 0
              THEN FOLDCURVE[i + 1] * ((i + 1) * dx - x)
                   + FOLDCURVE[i + 2] * (x - i * dx)
              ELSE -1 * FOLDCURVE[i + 1] * ((i + 1) * dx + x)
                   + FOLDCURVE[i + 2] * (x + i * dx)
    IN  Int16(y \div dx)

\* int16_t InterpolationFolder(int16_t x)
InterpolationFolder(x) ==
    LET dx == FoldDx
        i  == FoldBucket(x)
        y  == IF x >= 0
              THEN FOLDCURVE[i + 1] * ((i + 1) * dx - x)
                   + FOLDCURVE[i + 2] * (x - i * dx)
              ELSE -1 * FOLDCURVE[i + 1] * ((i + 1) * dx + x)
                   + FOLDCURVE[i + 2] * (x + i * dx)
    IN  Int16(CDiv(y, dx))

----------------------------------------------------------------------------
\* Output stage

\* "fold": signal[1] = 4*InterpolationFolder(Proportion(state_wavefolder,
\* NL_MAX_PARAM/4, signal[0]))
FoldedSignal(wf, s0) ==
    Int16(4 * InterpolationFolder(Int16(Proportion(wf, NL_MAX_PARAM \div 4, s0))))

\* Out(ch, ...): signal[ch] in "first", signal[ch]/2 in "dual" and "fold";
\* output 2 of "fold" is the folded signal of the one filter channel
Emit(v, ch, signal, wf) ==
    IF signal = <<>> THEN <<>>
    ELSE IF v = "first" THEN <<signal[1]>>
    ELSE IF v = "fold" /\ ch = 2 THEN <<CDiv(FoldedSignal(wf, signal[1]), 2)>>
    ELSE <<CDiv(signal[1], 2)>>

\* the filter settings behind output ch (one filter in "fold")
FilterOf(v, sf, ch) == IF v = "fold" THEN sf[1] ELSE sf[ch]

----------------------------------------------------------------------------
\* State after construction: the instances are globals, so members without
\* an initialiser are zero; state_clock = 63, clk_phi = 0, state_wavefolder = 0
Variants == {"first", "dual", "fold"}

Channels == 1..2

ZeroFilter == [f |-> 0, q |-> 0, mode |-> 0]

InitProgram(v) ==
    /\ variant = v
    /\ started = FALSE
    /\ cursor = 0
    /\ noise_mode = 0
    /\ state_clock = 63
    /\ state_filter = IF v = "fold" THEN <<ZeroFilter>> ELSE <<ZeroFilter, ZeroFilter>>
    /\ state_wavefolder = 0
    /\ clk_phi = 0
    /\ clk_dphi = 0
    /\ noise = 0
    /\ held = <<0, 0>>
    /\ op = "new"
    /\ gate = <<FALSE, FALSE>>
    /\ fed = <<0, 0>>
    /\ prevfed = <<0, 0>>
    /\ pre = 0
    /\ wrapped = FALSE
    /\ refreshed = FALSE
    /\ rate = 0
    /\ phi0 = 0
    /\ nclk = 0
    /\ wraps = 0
    /\ nowrap = 0
    /\ eta = -1
    /\ quiet = 0
    /\ feeds = <<0, 0>>
    /\ out = <<(<<>>), (<<>>)>>
    /\ ticks = 0
    /\ ui = 0

NoCall ==
    /\ fcall = "none"
    /\ farg = <<>>
    /\ fres = <<>>

Init == (\E v \in Variants : InitProgram(v)) /\ NoCall

----------------------------------------------------------------------------
\* Handlers

\* the filter settings Start() stores
StartFilter(v) ==
    IF v = "fold"
    THEN <<[f |-> 32, q |-> 32, mode |-> FILTER_MODE_LP]>>
    ELSE <<[f |-> 32, q |-> 32, mode |-> FILTER_MODE_LP],
           [f |-> 32, q |-> 32, mode |-> FILTER_MODE_BP]>>

\* void Start(); draw is the result of random(0, NOISE_VALUE_MAX)
Start(draw) ==
    /\ started' = TRUE
    /\ noise' = draw
    /\ noise_mode' = NOISE_MODE_BITFLIP
    /\ clk_dphi' = SetRate(variant, FSAMPLE_CHZ)
    /\ state_filter' = StartFilter(variant)
    /\ state_wavefolder' = IF variant = "fold" THEN 1 ELSE state_wavefolder
    /\ rate' = FSAMPLE_CHZ
    /\ phi0' = clk_phi
    /\ nclk' = 0
    /\ wraps' = 0
    /\ nowrap' = 0
    /\ op' = "Start"
    /\ UNCHANGED <<variant, cursor, state_clock, clk_phi, held, gate, fed,
                   prevfed, pre, wrapped, refreshed, eta, quiet, feeds, out,
                   ticks, ui, funvars>>

\* the values the local _noise[ch] of "first" can hold before the gate test
LocalJunk(v, stale) == IF v = "first" THEN StackJunk(stale) ELSE {stale}

\* void Controller(); o is the outcome of the noise part, g the gate inputs,
\* j the prior contents of the local _noise[] of "first"
Controller(o, g, j) ==
    LET sample == IF variant = "dual"
                  THEN [ch \in Channels |-> HoldSample(g[ch], held[ch], o.noise)]
                  ELSE IF variant = "first"
                  THEN [ch \in Channels |-> HoldSample(g[ch], j[ch], o.noise)]
                  ELSE [ch \in Channels |-> o.noise]
        step == [ch \in Channels |->
                    FilterStep(FilterOf(variant, state_filter, ch).mode, sample[ch])]
    IN
    /\ started
    /\ noise' = o.noise
    /\ clk_phi' = o.phi
    /\ held' = IF variant = "dual"
               THEN [ch \in Channels |-> HoldSample(g[ch], held[ch], o.noise)]
               ELSE held
    /\ fed' = [ch \in Channels |-> step[ch].fed]
    /\ feeds' = [ch \in Channels |-> step[ch].feeds]
    /\ out' = [ch \in Channels |->
                  Emit(variant, ch, step[ch].signal, state_wavefolder)]
    /\ eta' = o.eta
    /\ quiet' = IF o.eta >= 0 /\ ~(o.eta < clk_dphi) THEN quiet + 1 ELSE 0
    /\ nowrap' = IF ~o.clocked THEN nowrap
                 ELSE IF o.wrapped THEN 0 ELSE nowrap + 1
    /\ prevfed' = fed
    /\ gate' = g
    /\ pre' = noise
    /\ wrapped' = o.wrapped
    /\ refreshed' = o.refreshed
    /\ nclk' = IF o.clocked THEN nclk + 1 ELSE nclk
    /\ wraps' = IF o.wrapped THEN wraps + 1 ELSE wraps
    /\ ticks' = ticks + 1
    /\ op' = "Controller"
    /\ UNCHANGED <<variant, started, cursor, noise_mode, state_clock,
                   state_filter, state_wavefolder, clk_dphi, rate, phi0, ui,
                   funvars>>

\* void OnButtonPress()
OnButtonPress ==
    /\ started
    /\ cursor' = IF cursor + 1 > (IF variant = "fold" THEN 5 ELSE 8) THEN 0 ELSE cursor + 1
    /\ op' = "OnButtonPress"
    /\ UNCHANGED <<variant, started, noise_mode, state_clock, state_filter,
                   state_wavefolder, clk_phi, clk_dphi, noise, held, gate,
                   fed, prevfed, pre, wrapped, refreshed, rate, phi0, nclk,
                   wraps, nowrap, eta, quiet, feeds, out, ticks, funvars>>

\* the state_filter written by OnEncoderMove for cursor c
EncoderFilter(v, c, direction, sf) ==
    IF v = "fold"
    THEN IF c = 2 THEN [sf EXCEPT ![1].mode = constrain(@ + direction, 0, 4)]
         ELSE IF c = 3 THEN [sf EXCEPT ![1].f = constrain(@ + direction, 0, CFREQ_SCALE_IDX_C7)]
         ELSE IF c = 4 THEN [sf EXCEPT ![1].q = constrain(@ + direction, 0, NL_MAX_PARAM)]
         ELSE sf
    ELSE IF c \in {2, 3} THEN [sf EXCEPT ![c - 1].mode = constrain(@ + direction, 0, 4)]
         ELSE IF c \in {4, 5} THEN [sf EXCEPT ![c - 3].f = constrain(@ + direction, 0, BNC_MAX_PARAM)]
         ELSE IF c \in {6, 7} THEN [sf EXCEPT ![c - 5].q = constrain(@ + direction, 0, BNC_MAX_PARAM)]
         ELSE sf

\* the noise modes OnEncoderMove can select
MaxNoiseMode(v) == IF v = "fold" THEN 3 ELSE 2

\* void OnEncoderMove(int direction)
OnEncoderMove(direction) ==
    /\ started
    /\ state_clock' = IF cursor = 0
                      THEN constrain(state_clock + direction, 0, MaxParam(variant))
                      ELSE state_clock
    /\ IF cursor = 0 /\ variant # "first"
       THEN /\ clk_dphi' = SetRate(variant, ClockRate(variant, state_clock'))
            /\ rate' = ClockRate(variant, state_clock')
            /\ phi0' = clk_phi
            /\ nclk' = 0
            /\ wraps' = 0
            /\ nowrap' = 0
       ELSE UNCHANGED <<clk_dphi, rate, phi0, nclk, wraps, nowrap>>
    /\ noise_mode' = IF cursor = 1
                     THEN constrain(noise_mode + direction, 0, MaxNoiseMode(variant))
                     ELSE noise_mode
    /\ state_filter' = EncoderFilter(variant, cursor, direction, state_filter)
    /\ state_wavefolder' = IF variant = "fold" /\ cursor = 5
                           THEN constrain(state_wavefolder + direction, 1, NL_MAX_PARAM)
                           ELSE state_wavefolder
    /\ op' = "OnEncoderMove"
    /\ UNCHANGED <<variant, started, cursor, clk_phi, noise, held, gate, fed,
                   prevfed, pre, wrapped, refreshed, eta, quiet, feeds, out,
                   ticks, funvars>>

----------------------------------------------------------------------------
\* The applet under its host: Start first, then ticks, button presses and
\* encoder moves in any order, Start again at any time.  ui counts the
\* control events and ticks the Controller runs; both are capped.

\* one Controller run with random(0, 12) drawn from bits and Gate() from gates
Tick(bits, gates) ==
    \E o \in NoiseOutcomes(variant, noise_mode, clk_phi, clk_dphi, noise, bits),
       g \in gates,
       j1 \in LocalJunk(variant, fed[1]),
       j2 \in LocalJunk(variant, fed[2]) :
           Controller(o, g, <<j1, j2>>)

DoStart == \E draw \in StartDraws(variant) : Start(draw)

DoController == ticks < MaxTicks /\ Tick(BitDraws, GateDraws)

DoButtonPress == ui < MaxUI /\ OnButtonPress /\ ui' = ui + 1

DoEncoderMove == ui < MaxUI /\ (\E d \in Directions : OnEncoderMove(d)) /\ ui' = ui + 1

Next == DoStart \/ DoController \/ DoButtonPress \/ DoEncoderMove

Spec == Init /\ [][Next]_vars

----------------------------------------------------------------------------
\* The dual-channel applet at its top rate: Start, one encoder click up with
\* the cursor on the clock parameter, then ticks.  The generator returns its
\* smallest result and the gates stay low.
NoGate == {<<FALSE, FALSE>>}

PhaseStart == ~started /\ DoStart

PhaseTurn == started /\ ui = 0 /\ ticks = 0 /\ OnEncoderMove(1) /\ ui' = ui + 1

PhaseTick == ui = 1 /\ ticks < MaxPhaseTicks /\ Tick(LowBit, NoGate)

InitPhase == InitProgram("dual") /\ NoCall

NextPhase == PhaseStart \/ PhaseTurn \/ PhaseTick

SpecPhase == InitPhase /\ [][NextPhase]_vars

----------------------------------------------------------------------------
\* The phase clock alone, every variant: Start once, encoder moves on the
\* clock parameter (the cursor stays on it), ticks.  The noise draws and the
\* gates do not reach the clock, so they are kept to one value each.
ClockStart == ~started /\ DoStart

ClockTurn == ui < MaxClockUI /\ (\E d \in Directions : OnEncoderMove(d)) /\ ui' = ui + 1

ClockTick == ticks < MaxClockTicks /\ Tick(LowBit, NoGate)

NextClock == ClockStart \/ ClockTurn \/ ClockTick

SpecClock == Init /\ [][NextClock]_vars

----------------------------------------------------------------------------
\* The noise source with every result of random(0, 12), every variant: Start
\* once, one button press to reach the noise-mode parameter, encoder moves on it,
\* ticks.  The clock keeps the increment Start set; the gates stay low.
FlipStart == ~started /\ DoStart

FlipPress == cursor = 0 /\ OnButtonPress /\ UNCHANGED ui

FlipTurn == cursor = 1 /\ (\E d \in Directions : OnEncoderMove(d)) /\ UNCHANGED ui

FlipTick == ticks < MaxFlipTicks /\ Tick(AllBits, NoGate)

NextFlip == FlipStart \/ FlipPress \/ FlipTurn \/ FlipTick

SpecBitFlip == Init /\ [][NextFlip]_vars

----------------------------------------------------------------------------
\* The wavefolders as pure functions: the arguments are drawn at the start,
\* one step applies the function.

\* representable as int16_t
IsInt16(v) == -32768 <= v /\ v <= 32767

\* inputs around zero and next to both ends of int16_t
FoldInputs ==
    (-MaxOffset..MaxOffset) \cup (32767 - MaxOffset..32767)
        \cup (-32768..-32768 + MaxOffset)

\* fold limits: small ones and the noise amplitude
FoldLimits == (1..MaxLimit) \cup {NOISE_VALUE_MAX("fold")}

InitWaveFolder ==
    /\ InitProgram("fold")
    /\ fcall = "none"
    /\ farg \in [x : FoldInputs, limit : FoldLimits, k : -MaxShift..MaxShift]
    /\ fres = <<>>

\* WaveFolder at x and, where the shifted input is an int16_t, at
\* x + 2*limit*k and x + 4*limit*k
CallWaveFolder ==
    /\ fcall = "none"
    /\ fcall' = "WaveFolder"
    /\ fres' = [y  |-> WaveFolder(farg.x, farg.limit),
                y2 |-> IF IsInt16(farg.x + 2 * farg.limit * farg.k)
                       THEN WaveFolder(farg.x + 2 * farg.limit * farg.k, farg.limit)
                       ELSE 0,
                y4 |-> IF IsInt16(farg.x + 4 * farg.limit * farg.k)
                       THEN WaveFolder(farg.x + 4 * farg.limit * farg.k, farg.limit)
                       ELSE 0]
    /\ UNCHANGED <<progvars, farg>>

SpecWaveFolder == InitWaveFolder /\ [][CallWaveFolder]_vars

InitInterpolation ==
    /\ InitProgram("fold")
    /\ fcall = "none"
    /\ farg \in [x : -32768..32767]
    /\ fres = <<>>

\* InterpolationFolder at x and, where -x is an int16_t, at -x
CallInterpolationFolder ==
    /\ fcall = "none"
    /\ fcall' = "InterpolationFolder"
    /\ fres' = [y    |-> InterpolationFolder(farg.x),
                yneg |-> IF IsInt16(-farg.x) THEN InterpolationFolder(-farg.x) ELSE 0,
                i    |-> FoldBucket(farg.x)]
    /\ UNCHANGED <<progvars, farg>>

SpecInterpolation == InitInterpolation /\ [][CallInterpolationFolder]_vars

----------------------------------------------------------------------------
\* The table lookups as pure functions over every uint8_t argument, in the
\* two variants that have tables.
LookupVariants == {"dual", "fold"}

ParamBytes == 0..255

InitLookup ==
    /\ \E v \in LookupVariants : InitProgram(v)
    /\ fcall = "none"
    /\ farg \in [p : ParamBytes]
    /\ fres = <<>>

\* the next uint8_t argument (the last one is its own successor)
NextParam(p) == IF p < 255 THEN p + 1 ELSE p

\* Parameter2Clk at p and at the next argument, with the index it reads
CallParameter2Clk ==
    /\ fcall = "none"
    /\ fcall' = "Parameter2Clk"
    /\ fres' = [i     |-> Parameter2ClkIndex(variant, farg.p),
                y     |-> Parameter2Clk(variant, farg.p),
                ynext |-> Parameter2Clk(variant, NextParam(farg.p))]
    /\ UNCHANGED <<progvars, farg>>

\* Parameter2Frequency ("fold") at p and at the next argument
CallParameter2Frequency ==
    /\ variant = "fold"
    /\ fcall = "none"
    /\ fcall' = "Parameter2Frequency"
    /\ fres' = [i     |-> Parameter2FrequencyIndex(farg.p),
                y     |-> Parameter2Frequency(farg.p),
                ynext |-> Parameter2Frequency(NextParam(farg.p))]
    /\ UNCHANGED <<progvars, farg>>

NextLookup == CallParameter2Clk \/ CallParameter2Frequency

SpecLookup == InitLookup /\ [][NextLookup]_vars

----------------------------------------------------------------------------
\* The signal chain behind the noise source, every variant: Start once,
\* button presses up to the filter-mode parameters, encoder moves on the
\* noise mode and the filter modes, ticks with every gate input.  The clock
\* keeps the increment Start set.
ChainStart == ~started /\ DoStart

ChainPress == cursor < 3 /\ OnButtonPress /\ UNCHANGED ui

ChainTurn ==
    /\ cursor \in 1..3
    /\ ui < MaxChainUI
    /\ \E d \in Directions : OnEncoderMove(d)
    /\ ui' = ui + 1

ChainTick == ticks < MaxChainTicks /\ Tick(BitDraws, GateDraws)

NextChain == ChainStart \/ ChainPress \/ ChainTurn \/ ChainTick

SpecChain == Init /\ [][NextChain]_vars

----------------------------------------------------------------------------
\* The control surface alone, every variant: Start at any time (the
\* generator returning its smallest result), button presses, encoder moves
\* with single and large steps on whichever parameter the cursor is on.
ParamStart == Start(0)

ParamPress == OnButtonPress /\ UNCHANGED ui

ParamTurn ==
    /\ ui < MaxParamUI
    /\ \E d \in WideDirections : OnEncoderMove(d)
    /\ ui' = ui + 1

NextParamUI == ParamStart \/ ParamPress \/ ParamTurn

SpecParam == Init /\ [][NextParamUI]_vars

----------------------------------------------------------------------------
\* Crackle below the top rate, the two variants that have it: Start, one
\* encoder click down on the clock parameter, a button press, one click up
\* selecting Crackle, then ticks with every threshold of EtaDraws.  The
\* gates stay low.
CrackleVariants == {"dual", "fold"}

InitCrackle == (\E v \in CrackleVariants : InitProgram(v)) /\ NoCall

CrackleStart == ~started /\ DoStart

CrackleSlow == ui = 0 /\ cursor = 0 /\ OnEncoderMove(-1) /\ ui' = ui + 1

CracklePress == ui = 1 /\ cursor = 0 /\ OnButtonPress /\ UNCHANGED ui

CrackleSelect ==
    /\ cursor = 1
    /\ noise_mode = NOISE_MODE_BITFLIP
    /\ OnEncoderMove(1)
    /\ UNCHANGED ui

CrackleTick ==
    /\ noise_mode = NOISE_MODE_CRACKLE
    /\ ticks < MaxCrackleTicks
    /\ Tick(LowBit, NoGate)

NextCrackle ==
    CrackleStart \/ CrackleSlow \/ CracklePress \/ CrackleSelect \/ CrackleTick

SpecCrackle == InitCrackle /\ [][NextCrackle]_vars

----------------------------------------------------------------------------
\* Switching between the noise modes below the top rate, the variants with
\* a biased BitFlip: Start, one encoder click down on the clock parameter, a
\* button press, then encoder moves on the noise mode and ticks in any
\* order.  The gates stay low.
SwitchTurn ==
    /\ cursor = 1
    /\ ui < MaxSwitchUI
    /\ \E d \in Directions : OnEncoderMove(d)
    /\ ui' = ui + 1

SwitchTick == cursor = 1 /\ ticks < MaxSwitchTicks /\ Tick(LowBit, NoGate)

NextSwitch ==
    CrackleStart \/ CrackleSlow \/ CracklePress \/ SwitchTurn \/ SwitchTick

SpecSwitch == InitCrackle /\ [][NextSwitch]_vars

----------------------------------------------------------------------------
\* Properties

\* C1: at the end of every tick the clock phase is within [0, CLK_PHI_MAX).
\* Fails in the dual-channel applet: Parameter2Clk(63)*100 = 1666700 cHz is
\* above FSAMPLE_CHZ, the increment becomes CLK_PHI_MAX + 1 and the phase
\* gains one count per tick.
C1_PhaseInRange ==
    (started /\ op = "Controller") => (0 <= clk_phi /\ clk_phi < CLK_PHI_MAX)

\* C2: with the increment fixed since the phase was phi0 (0 after
\* construction), after nclk clocked ticks with wraps wrap events
\* wraps*CLK_PHI_MAX + clk_phi = phi0 + nclk*clk_dphi: a wrap carries the
\* residual phase over, so no phase is lost.
C2_NoDrift ==
    started => wraps * CLK_PHI_MAX + clk_phi = phi0 + nclk * clk_dphi

\* C2 witness: several ticks from phase 0 with a wrap, a tick without one and
\* a residual phase
C2_Witness ==
    /\ started
    /\ phi0 = 0
    /\ nclk >= 3
    /\ wraps >= 1
    /\ wraps < nclk
    /\ clk_phi > 0

\* floor(r*(2^k - 1)/d) and the remainder, one binary digit at a time
RECURSIVE ScaleOnes(_, _, _)
ScaleOnes(r, d, k) ==
    IF k = 0 THEN <<0, 0>>
    ELSE LET p == ScaleOnes(r, d, k - 1)
             t == 2 * p[2] + r
         IN  <<2 * p[1] + t \div d, t % d>>

\* floor(cfreq * CLK_PHI_MAX / FSAMPLE_CHZ) in unbounded arithmetic
\* (CLK_PHI_MAX = 2^16 - 1)
ExactIncrement(cfreq) ==
    (cfreq \div FSAMPLE_CHZ) * CLK_PHI_MAX
        + ScaleOnes(cfreq % FSAMPLE_CHZ, FSAMPLE_CHZ, 16)[1]

\* C3: every rate-setting call stores floor(rate*CLK_PHI_MAX/sample rate).
\* Fails in the first variant, whose 32-bit product overflows.
C3_ExactIncrement ==
    started => clk_dphi = ExactIncrement(rate)

\* bit i of the two's complement representation of a
BitOf(a, i) == (a \div (2^i)) % 2

\* the bit positions (of the low 16) in which a and b differ
DiffBits(a, b) == {i \in 0..15 : BitOf(a, i) # BitOf(b, i)}

\* the 16-bit representations of a and b differ in exactly one bit, which is
\* one of bits 0..11
OneLowBitApart(a, b) ==
    /\ Cardinality(DiffBits(a, b)) = 1
    /\ DiffBits(a, b) \subseteq 0..11

\* the zero-offset representation of a sample: the sample itself in the first
\* variant (unsigned noise), noise + NOISE_VALUE_MAX in the others
ZeroOffset(v, nz) == IF v = "first" THEN nz ELSE nz + NOISE_VALUE_MAX(v)

\* a tick that ran the BitFlip refresh
BitFlipRefresh == op = "Controller" /\ refreshed /\ noise_mode = NOISE_MODE_BITFLIP

\* C4 as stated: every BitFlip refresh changes exactly one of bits 0..11 of
\* noise + NOISE_VALUE_MAX.  Fails in the first variant, which XORs the
\* unsigned sample itself.
C4_OneBitOfBiased ==
    BitFlipRefresh =>
        OneLowBitApart(pre + NOISE_VALUE_MAX(variant), noise + NOISE_VALUE_MAX(variant))

\* C4 amended: every BitFlip refresh changes exactly one of bits 0..11 of the
\* zero-offset representation of the sample
C4_OneBitOfZeroOffset ==
    BitFlipRefresh =>
        OneLowBitApart(ZeroOffset(variant, pre), ZeroOffset(variant, noise))

\* C4 witness: a BitFlip refresh of a negative sample that sets bit 11 of its
\* biased value
C4_Witness ==
    /\ BitFlipRefresh
    /\ variant = "dual"
    /\ pre < 0
    /\ noise = pre + 2048

\* C5: after Start the noise sample is within [-NOISE_VALUE_MAX,
\* NOISE_VALUE_MAX].  Fails: BitFlip works on the 12-bit biased value
\* 0..4095, so it can store NOISE_VALUE_MAX + 1.
C5_NoiseInRange ==
    started =>
        (-NOISE_VALUE_MAX(variant) <= noise /\ noise <= NOISE_VALUE_MAX(variant))

\* the modes C6 names
WrapClockedModes(v) ==
    {NOISE_MODE_WHITE, NOISE_MODE_BITFLIP}
        \cup (IF v = "fold" THEN {NOISE_MODE_LINEIN} ELSE {})

\* C6: in White, BitFlip and LineIn modes a tick without a wrap leaves the
\* noise sample unchanged.  Fails in the first variant, which refreshes the
\* sample on every tick.
C6_RefreshOnlyOnWrap ==
    (op = "Controller" /\ noise_mode \in WrapClockedModes(variant) /\ ~wrapped)
        => noise = pre

\* C7: on a tick with a channel's gate high the sample fed to its filter is
\* the one of the tick before; with the gate low it is the current noise
\* sample.  Fails in the first variant (the held sample is an uninitialised
\* local) and in the fold variant (the gate is not read).
C7_GateHold ==
    op = "Controller" =>
        \A ch \in Channels :
            IF gate[ch]
            THEN ticks >= 2 => fed[ch] = prevfed[ch]
            ELSE fed[ch] = noise

\* the shifted inputs of a WaveFolder call and the bias additions inside the
\* function are int16_t values
ShiftInRange(mult) ==
    /\ IsInt16(farg.x + mult * farg.limit * farg.k)
    /\ IsInt16(farg.x + farg.limit)
    /\ IsInt16(farg.x + mult * farg.limit * farg.k + farg.limit)

\* C8 as stated: WaveFolder(x + 2*limit*k, limit) = WaveFolder(x, limit)
\* whenever x and x + 2*limit*k are int16_t values.  Fails: a shift by
\* 2*limit negates the output.
C8_Period2Limit ==
    (fcall = "WaveFolder" /\ IsInt16(farg.x + 2 * farg.limit * farg.k))
        => fres.y2 = fres.y

\* C8 amended: the period is 4*limit: WaveFolder(x + 4*limit*k, limit) =
\* WaveFolder(x, limit) whenever x + limit and x + 4*limit*k + limit are
\* int16_t values
C8_Period4Limit ==
    (fcall = "WaveFolder" /\ ShiftInRange(4)) => fres.y4 = fres.y

\* C8 witness: a shift across zero of an input that folds to a nonzero value
C8_Witness ==
    /\ fcall = "WaveFolder"
    /\ ShiftInRange(4)
    /\ farg.k # 0
    /\ farg.x > 0
    /\ farg.x + 4 * farg.limit * farg.k < 0
    /\ fres.y # 0
    /\ fres.y4 = fres.y

\* C9: InterpolationFolder(-x) = -InterpolationFolder(x) for every int16_t x
\* whose negation is an int16_t, and InterpolationFolder(0) = 0
C9_OddSymmetric ==
    fcall = "InterpolationFolder" =>
        /\ IsInt16(-farg.x) => fres.yneg = -fres.y
        /\ farg.x = 0 => fres.y = 0

\* C9 witness: a negative input inside a bucket with a nonzero result
C9_Witness ==
    /\ fcall = "InterpolationFolder"
    /\ farg.x < 0
    /\ farg.x % FoldDx # 0
    /\ fres.y # 0
    /\ fres.yneg = -fres.y

\* C10: at x = i*dx, i in 0..FOLDCURVE_N-1, InterpolationFolder returns
\* FOLDCURVE[i]; the bucket read is within 0..FOLDCURVE_N-2 for every
\* int16_t input, so the reads at i and i+1 stay inside the table
C10_TableAtBoundaries ==
    fcall = "InterpolationFolder" =>
        /\ fres.i \in 0..(FOLDCURVE_N - 2)
        /\ (farg.x >= 0 /\ farg.x % FoldDx = 0 /\ farg.x \div FoldDx <= FOLDCURVE_N - 1)
               => fres.y = FOLDCURVE[farg.x \div FoldDx + 1]

\* C10 witness: the last table index, where the bucket is clamped
C10_Witness ==
    /\ fcall = "InterpolationFolder"
    /\ farg.x = (FOLDCURVE_N - 1) * FoldDx
    /\ fres.i = FOLDCURVE_N - 2
    /\ fres.y = FOLDCURVE[FOLDCURVE_N]

\* a table lookup has been applied
LookupDone == fcall \in {"Parameter2Clk", "Parameter2Frequency"}

\* the table a lookup reads
LookupTable == IF fcall = "Parameter2Clk" THEN ClkTable(variant) ELSE CFREQ_SCALE

\* the largest index the lookup that was applied lets through
LookupMaxIndex ==
    IF fcall = "Parameter2Clk" THEN Len(ClkTable(variant)) - 1
    ELSE CFREQ_SCALE_IDX_C7

\* the lookup read inside its table and is non-decreasing at its argument
LookupInsideMonotone ==
    /\ fres.i \in 0..(Len(LookupTable) - 1)
    /\ fres.y <= fres.ynext

\* C11 as stated: every table lookup is non-decreasing in p over all 8-bit
\* p, reads inside its table, and for p at or beyond the maximum parameter
\* returns the last entry of its table.  Fails for Parameter2Frequency,
\* which clamps p to CFREQ_SCALE_IDX_C7 = 75 and returns entry 75 of the
\* 112-entry table.
C11_LookupLastEntry ==
    LookupDone =>
        /\ LookupInsideMonotone
        /\ farg.p >= MaxParam(variant)
               => fres.y = LookupTable[Len(LookupTable)]

\* C11 amended: every table lookup is non-decreasing in p over all 8-bit p,
\* reads inside its table, and for p at or beyond its largest index returns
\* the entry at that index: the last entry of the table for Parameter2Clk,
\* entry CFREQ_SCALE_IDX_C7 for Parameter2Frequency
C11_LookupClamped ==
    LookupDone =>
        /\ LookupInsideMonotone
        /\ farg.p >= LookupMaxIndex
               => (fres.i = LookupMaxIndex /\ fres.y = LookupTable[LookupMaxIndex + 1])

\* C11 witness: Parameter2Clk at the largest uint8_t argument returns the
\* last entry of the 64-entry table
C11_Witness ==
    /\ fcall = "Parameter2Clk"
    /\ variant = "dual"
    /\ farg.p = 255
    /\ fres.i = BNC_MAX_PARAM
    /\ fres.y = FREQ_SCALE[Len(FREQ_SCALE)]

\* the outputs that emit a filter channel directly
FilterChannels(v) == IF v = "fold" THEN {1} ELSE Channels

\* C12: with the filter mode Off, every tick emits for the channel exactly
\* the channel's noise sample halved; in White mode at clock parameter 63
\* with the gate low the sample emitted is a fresh one on every tick.
\* Fails in the first variant, which emits signal[ch] without halving it.
C12_OffEmitsHalf ==
    op = "Controller" =>
        \A ch \in FilterChannels(variant) :
            FilterOf(variant, state_filter, ch).mode = FILTER_MODE_OFF =>
                /\ out[ch] = <<CDiv(fed[ch], 2)>>
                /\ (noise_mode = NOISE_MODE_WHITE /\ state_clock = 63 /\ ~gate[ch])
                       => (refreshed /\ fed[ch] = noise)

\* the filter records of a variant
Filters(v) == IF v = "fold" THEN {1} ELSE Channels

\* C13: after Start and any sequence of button presses and encoder moves
\* the clock, filter frequency and resonance parameters are within
\* [0, MAX_PARAM] (the wavefolder parameter within [1, MAX_PARAM]), the noise
\* mode and the filter modes are valid indices of their name arrays, and the
\* clock parameter and the filter frequency are valid indices of the tables
\* read with them
C13_ParamsInRange ==
    started =>
        /\ state_clock \in 0..MaxParam(variant)
        /\ noise_mode + 1 \in DOMAIN NOISE_MODE_NAMES(variant)
        /\ \A c \in Filters(variant) :
               /\ state_filter[c].f \in 0..MaxParam(variant)
               /\ state_filter[c].q \in 0..MaxParam(variant)
               /\ state_filter[c].mode + 1 \in DOMAIN FILTER_MODE_NAMES(variant)
        /\ variant # "first" => state_clock + 1 \in DOMAIN ClkTable(variant)
        /\ variant = "fold" =>
               /\ state_filter[1].f + 1 \in DOMAIN CFREQ_SCALE
               /\ state_wavefolder \in 1..NL_MAX_PARAM

\* C13 witness: a large step up on a filter frequency parameter left it at
\* the top of its range
C13_Witness ==
    /\ started
    /\ variant = "dual"
    /\ op = "OnEncoderMove"
    /\ cursor = 5
    /\ state_filter[2].f = BNC_MAX_PARAM

\* the last tick ran the Crackle branch and its event fired (eta < clk_dphi)
CrackleEvent == op = "Controller" /\ eta >= 0 /\ eta < clk_dphi

\* the last tick ran the Crackle branch and no event fired
CrackleQuiet == op = "Controller" /\ eta >= 0 /\ ~(eta < clk_dphi)

\* C14: no division executed has a zero divisor: the constant divisors
\* (sample rate, dx of the interpolated folder, NL_MAX_PARAM/4 of the fold
\* drive) are nonzero, and on every Crackle event the divisor eta of
\* clk_dphi / eta is nonzero.  Fails: random(0, CLK_PHI_MAX) can return 0,
\* and 0 < clk_dphi selects the event branch.
C14_NoZeroDivisor ==
    /\ FSAMPLE_CHZ # 0
    /\ FoldDx # 0
    /\ NL_MAX_PARAM \div 4 # 0
    /\ CrackleEvent => eta # 0

\* min(8, increment/eta) for eta > 0
BurstSteps(dphi, e) == IF dphi \div e > 8 THEN 8 ELSE dphi \div e

\* min(8, increment/eta) * (NOISE_VALUE_MAX/8), with the division by 8
\* taken before or after the multiplication
BurstMagnitudes(v, dphi, e) ==
    {BurstSteps(dphi, e) * (NOISE_VALUE_MAX(v) \div 8),
     (BurstSteps(dphi, e) * NOISE_VALUE_MAX(v)) \div 8}

\* C15: on a Crackle event (eta < increment, eta > 0) the new noise value is
\* sign * min(8, increment/eta) * (NOISE_VALUE_MAX/8), sign +1 or -1.
\* Fails: increment/eta is stored in an int16_t before the comparison with
\* 8, so a quotient above 32767 turns negative and escapes the limit.
C15_BurstAmplitude ==
    (CrackleEvent /\ eta > 0) =>
        \E m \in BurstMagnitudes(variant, clk_dphi, eta) : noise \in {m, -m}

\* magnitude
Abs(x) == IF x < 0 THEN -x ELSE x

\* the number of times n must be multiplied by 3/4, truncating toward
\* zero, to become 0
RECURSIVE DecaySteps(_)
DecaySteps(n) == IF n = 0 THEN 0 ELSE 1 + DecaySteps(CDiv(n * 3, 4))

\* the longest decay of an int16_t value
DecayLimit == DecaySteps(32767)

\* C16: on a Crackle tick without an event the new noise value is the
\* previous one times 3/4 truncated toward zero and its magnitude does not
\* increase; over a run of such ticks the value reaches 0 and stays 0:
\* after quiet ticks in a row at most DecayLimit - quiet further ones
\* are needed, none from the DecayLimit-th on
C16_CrackleDecay ==
    CrackleQuiet =>
        /\ noise = CDiv(pre * 3, 4)
        /\ Abs(noise) <= Abs(pre)
        /\ pre = 0 => noise = 0
        /\ DecaySteps(noise) <= (IF quiet < DecayLimit THEN DecayLimit - quiet ELSE 0)

\* C16 witness: the last step of a longest decay, from 1 to 0 on the
\* DecayLimit-th tick in a row without an event
C16_Witness ==
    /\ CrackleQuiet
    /\ quiet = DecayLimit
    /\ pre = 1
    /\ noise = 0

\* C17: whenever BitFlip performs its XOR the operand is the biased sample
\* noise + NOISE_VALUE_MAX and is non-negative, and the same bias is
\* subtracted after the XOR.  Fails after a switch from Crackle, whose burst
\* can leave a sample far below -NOISE_VALUE_MAX (and in the first variant,
\* which XORs the sample itself and subtracts nothing).
C17_XorOnBiased ==
    BitFlipRefresh =>
        /\ BitFlipOperand(variant, pre) = pre + NOISE_VALUE_MAX(variant)
        /\ BitFlipOperand(variant, pre) >= 0
        /\ BitFlipUnbias(variant) = NOISE_VALUE_MAX(variant)
        /\ \E r \in AllBits :
               noise = XorBit(pre + NOISE_VALUE_MAX(variant), r) - NOISE_VALUE_MAX(variant)

\* the filter modes
FilterModes == FILTER_MODE_OFF..FILTER_MODE_NOTCH

\* the channels whose sample at the feed is defined by the program state
\* (in the first variant with the gate high it is an uninitialised local)
DefinedSample(ch) == variant # "first" \/ ~gate[ch]

\* the sample of channel ch after the gate test
ChannelSample(ch) == IF variant = "dual" THEN held[ch] ELSE noise

C19_RateMatchesParameter ==
    (started /\ variant # "first") =>
        clk_dphi = SetRate(variant, ClockRate(variant, state_clock))

\* ceil(a / b) for b > 0
CeilDiv(a, b) == (a + b - 1) \div b

\* the increments the encoder can set: one for every clock parameter
ParameterIncrements(v) ==
    IF v = "first" THEN {}
    ELSE {SetRate(v, ClockRate(v, p)) : p \in 0..MaxParam(v)}

\* C20: in the wrap-clocked modes the increment is strictly positive, the
\* running one in every state and, whenever a handler has set the rate, the
\* one of every clock parameter the encoder can select; a wrap
\* occurs within ceil(CLK_PHI_MAX / clk_dphi) clocked ticks in a row from
\* any state (there are never that many in a row without one), and a tick
\* that wraps refreshes the noise sample
C20_WrapWithinPeriod ==
    (started /\ noise_mode \in WrapClockedModes(variant)) =>
        /\ clk_dphi > 0
        /\ op \in {"Start", "OnEncoderMove"} =>
               \A d \in ParameterIncrements(variant) : d > 0
        /\ nowrap < CeilDiv(CLK_PHI_MAX, clk_dphi)
        /\ (op = "Controller" /\ wrapped) => refreshed

\* C20 witness: the first wrap after the clock was turned down, on the last
\* tick the bound allows, after a run of ticks without a wrap
C20_Witness ==
    /\ started
    /\ variant = "fold"
    /\ op = "Controller"
    /\ clk_dphi < CLK_PHI_MAX \div 2
    /\ wrapped
    /\ refreshed
    /\ wraps = 1
    /\ nclk = CeilDiv(CLK_PHI_MAX, clk_dphi)

====
